---- MODULE Spec2Model ----
(***************************************************************************)
(* Model of app.py (calstools): the pipeline                               *)
(*   OCR -> language model -> clean_json_string -> create_google_calendar_event *)
(* driven by the "analyze" button of main().                               *)
(*                                                                         *)
(* Text is a sequence of tokens.  The tokens are the characters the code   *)
(* looks at, plus two tokens that stand for runs of other characters:      *)
(*   "T"  a backtick            " "  one whitespace character              *)
(*   "{"  "}"  the braces       "J"  the four letters json                 *)
(*   "a"  any other text (inside braces: the members of the JSON object)   *)
(***************************************************************************)
EXTENDS Integers, Sequences, FiniteSets, TLC

\* ------------------------------------------------------------------ bounds

MaxLen == 7
MaxDates == 2

\* ------------------------------------------------------------- text helpers

\* Python's None where a text is expected: a text of one token no text holds.
None == <<"None">>

Alphabet == {"T", " ", "{", "}", "J", "a"}

\* Python's s[a:b] for a sequence, 0-based, negative indices counted from the end.
PyIndex(i, n) ==
    IF i < 0 THEN (IF i + n < 0 THEN 0 ELSE i + n)
    ELSE (IF i > n THEN n ELSE i)

PySlice(s, a, b) ==
    LET lo == PyIndex(a, Len(s))
        hi == PyIndex(b, Len(s))
    IN  IF lo >= hi THEN << >> ELSE SubSeq(s, lo + 1, hi)

\* str.find / str.rfind for a one-character needle: 0-based index or -1.
RECURSIVE FindFrom(_, _, _)
FindFrom(s, c, i) ==
    IF i > Len(s) THEN -1
    ELSE IF s[i] = c THEN i - 1
    ELSE FindFrom(s, c, i + 1)

find(s, c) == FindFrom(s, c, 1)

RECURSIVE RFindFrom(_, _, _)
RFindFrom(s, c, i) ==
    IF i < 1 THEN -1
    ELSE IF s[i] = c THEN i - 1
    ELSE RFindFrom(s, c, i - 1)

rfind(s, c) == RFindFrom(s, c, Len(s))

\* First position >= i (1-based) that holds no whitespace: the greedy \s*.
RECURSIVE SkipSpaces(_, _)
SkipSpaces(s, i) ==
    IF i <= Len(s) /\ s[i] = " " THEN SkipSpaces(s, i + 1) ELSE i

TicksAt(s, i) ==
    /\ i + 2 <= Len(s)
    /\ s[i] = "T" /\ s[i + 1] = "T" /\ s[i + 2] = "T"

\* The regular expression ```json\s*|\s*``` tried at position i: the position
\* after the match, or 0 when neither alternative matches there.  The first
\* alternative is tried first.
MatchFenceAt(s, i) ==
    IF TicksAt(s, i) /\ i + 3 <= Len(s) /\ s[i + 3] = "J"
    THEN SkipSpaces(s, i + 4)
    ELSE LET j == SkipSpaces(s, i)
         IN  IF TicksAt(s, j) THEN j + 3 ELSE 0

\* re.sub(pattern, '', s): one left-to-right pass over non-overlapping matches.
RECURSIVE SubFrom(_, _)
SubFrom(s, i) ==
    IF i > Len(s) THEN << >>
    ELSE LET e == MatchFenceAt(s, i)
         IN  IF e = 0 THEN <<s[i]>> \o SubFrom(s, i + 1)
             ELSE SubFrom(s, e)

re_sub_fence(s) == SubFrom(s, 1)

RECURSIVE LastNonSpace(_, _)
LastNonSpace(s, i) ==
    IF i >= 1 /\ s[i] = " " THEN LastNonSpace(s, i - 1) ELSE i

strip(s) ==
    LET lo == SkipSpaces(s, 1)
        hi == LastNonSpace(s, Len(s))
    IN  IF lo > hi THEN << >> ELSE SubSeq(s, lo, hi)

clean_json_string(json_string) ==
    LET s1 == re_sub_fence(json_string)
        s2 == strip(s1)
    IN  PySlice(s2, find(s2, "{"), rfind(s2, "}") + 1)

\* if x: for a text or None (main, lines 294 and 298).
TruthyNotNone(x) == x # None

Truthy(x) == x # None /\ x # << >>

\* json.loads of a cleaned text.  An object is "{", members, "}" with optional
\* whitespace; the token "a" stands for well-formed members, whose content is
\* `payload`; no members is the empty object.  Anything else is a
\* JSONDecodeError.
NoSpaces(s) == SelectSeq(s, LAMBDA c : c # " ")

Missing == "<missing>"

EmptyDict == [dates |-> [type |-> Missing, items |-> << >>], reminder |-> Missing]

json_loads(s, payload) ==
    LET body == NoSpaces(s)
    IN  IF Len(body) >= 2 /\ body[1] = "{" /\ body[Len(body)] = "}"
        THEN IF Len(body) = 2 THEN [ok |-> TRUE, value |-> EmptyDict]
             ELSE IF SubSeq(body, 2, Len(body) - 1) = <<"a">>
                  THEN [ok |-> TRUE, value |-> payload]
                  ELSE [ok |-> FALSE, value |-> EmptyDict]
        ELSE [ok |-> FALSE, value |-> EmptyDict]

\* ---------------------------------------------------------------- datetime

MINYEAR == 1
MAXYEAR == 9999

IsLeap(y) == y % 4 = 0 /\ (y % 100 # 0 \/ y % 400 = 0)

DaysInMonth(y, m) ==
    IF m = 2 THEN (IF IsLeap(y) THEN 29 ELSE 28)
    ELSE IF m \in {4, 6, 9, 11} THEN 30 ELSE 31

DateTime(y, m, d, H, M, S, us) ==
    [year |-> y, month |-> m, day |-> d, hour |-> H, minute |-> M,
     second |-> S, microsecond |-> us]

\* A value past datetime.max is an OverflowError ("date value out of range").
Overflows(dt) == dt.year > MAXYEAR

NextDay(dt) ==
    IF dt.day < DaysInMonth(dt.year, dt.month) THEN [dt EXCEPT !.day = dt.day + 1]
    ELSE IF dt.month < 12 THEN [dt EXCEPT !.day = 1, !.month = dt.month + 1]
    ELSE [dt EXCEPT !.day = 1, !.month = 1, !.year = dt.year + 1]

\* dt + timedelta(days=n)
RECURSIVE AddDays(_, _)
AddDays(dt, n) == IF n = 0 THEN dt ELSE AddDays(NextDay(dt), n - 1)

\* dt + timedelta(hours=1)
AddHour(dt) ==
    IF dt.hour < 23 THEN [dt EXCEPT !.hour = dt.hour + 1]
    ELSE NextDay([dt EXCEPT !.hour = 0])

\* a - b for two datetimes of the same date, as Python normalises a timedelta:
\* days, 0 <= seconds < 86400, 0 <= microseconds < 1000000.
SecondOfDay(dt) == dt.hour * 3600 + dt.minute * 60 + dt.second

SameDaySub(a, b) ==
    LET us == a.microsecond - b.microsecond
        carry == IF us < 0 THEN 1 ELSE 0
        secs == SecondOfDay(a) - SecondOfDay(b) - carry
    IN  [days |-> IF secs < 0 THEN -1 ELSE 0,
         seconds |-> IF secs < 0 THEN secs + 86400 ELSE secs,
         microseconds |-> IF us < 0 THEN us + 1000000 ELSE us]

\* int(td.total_seconds() / 60): the quotient truncated towards zero.
IntMinutes(td) ==
    LET whole == td.days * 86400 + td.seconds
    IN  IF whole >= 0 THEN whole \div 60
        ELSE -(((-whole) - (IF td.microseconds > 0 THEN 1 ELSE 0)) \div 60)

\* An entry of the decoded dates: a JSON string (type "str") or another JSON
\* value (type "null").  A string is described by whether its literal tokens
\* match the format and by the numbers in its five fields.
DateText(y, m, d, H, M) ==
    [type |-> "str", fmt |-> TRUE, y |-> y, m |-> m, d |-> d, H |-> H, M |-> M]

NotADate == [type |-> "str", fmt |-> FALSE, y |-> 0, m |-> 0, d |-> 0, H |-> 0, M |-> 0]

JsonNull == [type |-> "null", fmt |-> FALSE, y |-> 0, m |-> 0, d |-> 0, H |-> 0, M |-> 0]

\* datetime.strptime(date, "%Y년 %m월 %d일 %H:%M")
strptime(date) ==
    LET epoch == DateTime(1900, 1, 1, 0, 0, 0, 0)
    IN  IF date.type # "str" THEN [exc |-> "TypeError", dt |-> epoch]
        ELSE IF \/ ~date.fmt
                \/ date.y < MINYEAR \/ date.y > MAXYEAR
                \/ date.m < 1 \/ date.m > 12
                \/ date.d < 1 \/ date.d > DaysInMonth(date.y, date.m)
                \/ date.H < 0 \/ date.H > 23
                \/ date.M < 0 \/ date.M > 59
        THEN [exc |-> "ValueError", dt |-> epoch]
        ELSE [exc |-> "none", dt |-> DateTime(date.y, date.m, date.d, date.H, date.M, 0, 0)]

\* ---------------------------------------------------------------- reminders

\* The values of the key "알림_설정".  TwoDaysBefore is "이벤트 2일 전",
\* DayOf0845 is "당일 오전 8시 45분", DefaultReminder is "기본 알림"; the
\* others are a string that differs from a known tag in case or spacing only,
\* and a JSON null.
TwoDaysBefore == "two-days-before"
DayOf0845 == "day-of-8:45am"
DefaultReminder == "default"
Reminders == {TwoDaysBefore, DayOf0845, DefaultReminder, "Two-Days-Before", "null"}

Popup(minutes) ==
    [useDefault |-> FALSE, overrides |-> <<[method |-> "popup", minutes |-> minutes]>>]

\* Lines 189-191.
MinutesUntilReminderUnclamped(dt) ==
    IntMinutes(SameDaySub([dt EXCEPT !.hour = 8, !.minute = 45], dt))

minutes_until_reminder(dt) ==
    LET m == IntMinutes(SameDaySub([dt EXCEPT !.hour = 8, !.minute = 45], dt))
    IN  IF m < 0 THEN 0 ELSE m

\* Lines 181-199: event['reminders'].
RemindersIgnoringCase(reminder, dt) ==
    IF reminder \in {TwoDaysBefore, "Two-Days-Before"} THEN Popup(2 * 24 * 60)
    ELSE IF reminder = DayOf0845 THEN Popup(minutes_until_reminder(dt))
    ELSE [useDefault |-> TRUE, overrides |-> << >>]

reminders(reminder, dt) ==
    IF reminder = TwoDaysBefore THEN Popup(2 * 24 * 60)
    ELSE IF reminder = DayOf0845 THEN Popup(minutes_until_reminder(dt))
    ELSE [useDefault |-> TRUE, overrides |-> << >>]

\* event_dict.get('알림_설정', '기본 알림') and event_dict.get('일시', []) with
\* the coercion of a single string into a list (lines 149-155).
get_reminder(event_dict) ==
    IF event_dict.reminder = Missing THEN DefaultReminder ELSE event_dict.reminder

get_dates(event_dict) ==
    IF event_dict.dates.type = Missing THEN << >>
    ELSE IF event_dict.dates.type = "str" THEN <<event_dict.dates.items[1]>>
    ELSE event_dict.dates.items

\* Lines 165-199: the event body for a start time; summary, location and
\* description are copied from the record unchanged and are left out.
Event(dt, reminder) ==
    [start |-> dt, end |-> AddHour(dt), reminders |-> reminders(reminder, dt)]

\* ------------------------------------------------------------------- inputs

\* What the language model may put under "일시".
DateEntries ==
    { DateText(2024, 3, 15, 10, 0),
      DateText(2024, 3, 15, 7, 0),
      DateText(2024, 12, 31, 23, 30),
      DateText(9999, 12, 31, 23, 30),
      DateText(2024, 2, 30, 9, 0),
      NotADate,
      JsonNull }

RECURSIVE SeqsUpTo(_, _)
SeqsUpTo(S, n) ==
    IF n = 0 THEN {<< >>}
    ELSE LET shorter == SeqsUpTo(S, n - 1)
         IN  shorter \cup {Append(s, x) : s \in {t \in shorter : Len(t) = n - 1}, x \in S}

DatesValues ==
    {[type |-> Missing, items |-> << >>]}
    \cup {[type |-> "str", items |-> <<e>>] : e \in {x \in DateEntries : x.type = "str"}}
    \cup {[type |-> "list", items |-> s] : s \in SeqsUpTo(DateEntries, MaxDates)}

Payloads == [dates : DatesValues, reminder : Reminders \cup {Missing}]

\* datetime.now() at a fallback.
Nows ==
    { DateTime(2024, 6, 1, 8, 44, 30, 500000),
      DateTime(2024, 12, 28, 12, 0, 0, 0) }

\* message.content of the completion.
Responses ==
    { <<"T", "T", "T", "J", " ", "{", "a", "}", " ", "T", "T", "T">>,
      <<" ", "{", "a", "}", " ">>,
      <<"a", "{", " ", "}", "a">>,
      <<"a">>,
      <<"a", "}">>,
      <<"{", "T", "T", " ", "T", "T", "T", "T", "}">>,
      << >> }

\* extract_text_from_image: readtext yields a text (possibly empty) or raises,
\* or load_ocr gave no reader and readtext is not called.
OcrOutcomes == {"text", "empty", "raise", "no_reader"}

\* What events().insert(...).execute() does: returns the created event, raises
\* HttpError with a status, or raises something else (transport failure).
InsertOutcomes == {"ok", "http401", "http403", "http500", "exception"}

\* Where control goes after execute() (lines 201-213): on to the next date,
\* or out of the loop through an except clause.
AfterInsertSkipAndContinue(outcome) == "insert"

AfterInsert(outcome) == IF outcome = "ok" THEN "insert" ELSE "display"

AuthMessages == {"warning:auth", "info:auth"}

\* The except clauses of lines 205-213.
ExceptMessage(cause) ==
    IF cause \in {"http401", "http403"} THEN "warning:auth"
    ELSE IF cause = "http500" THEN "error:calendar_api"
    ELSE "error:unexpected"

\* --------------------------------------------------------------- variables

VARIABLES
    pc,             \* where the script is: "idle", "ocr", "llm", "create",
                    \* "insert", "display", "done"; "clean" under SpecClean
    google_token,   \* 'google_token' in st.session_state
    extracted_text, \* main: extracted_text
    analyzed_info,  \* main: analyzed_info
    payload,        \* the content of the members the model wrote
    dates,          \* create_google_calendar_event: dates, after the coercion
    reminder,       \* create_google_calendar_event: reminder
    date_i,         \* how many entries of dates the for loop has taken
    created_events, \* create_google_calendar_event: created_events
    returned,       \* its return value: "unset", "None" or "list"
    calendar,       \* the events this run has created in the calendar
    attempts,       \* the insert calls of this run, in order
    cause,          \* why create_google_calendar_event failed, "none" if not
    messages,       \* what the run has shown: st.warning / st.error / st.info
    ocr_calls,      \* calls of reader.readtext in this run
    llm_calls,      \* calls of client.chat.completions.create in this run
    stages,         \* the stages this run has entered, in order
    json_string,    \* SpecClean: the argument of clean_json_string
    cleaned,        \* SpecClean: clean_json_string(json_string)
    recleaned       \* SpecClean: clean_json_string(cleaned)

runVars == <<extracted_text, analyzed_info, payload, dates, reminder, date_i,
             created_events, returned, calendar, attempts, cause, messages,
             ocr_calls, llm_calls, stages>>

cleanVars == <<json_string, cleaned, recleaned>>

vars == <<pc, google_token, runVars, cleanVars>>

\* A script run that has not pressed the button yet.
FreshRun ==
    /\ extracted_text = None
    /\ analyzed_info = None
    /\ payload = EmptyDict
    /\ dates = << >>
    /\ reminder = DefaultReminder
    /\ date_i = 0
    /\ created_events = << >>
    /\ returned = "unset"
    /\ calendar = << >>
    /\ attempts = << >>
    /\ cause = "none"
    /\ messages = {}
    /\ ocr_calls = 0
    /\ llm_calls = 0
    /\ stages = << >>

Init ==
    /\ pc = "idle"
    /\ google_token = FALSE
    /\ FreshRun
    /\ json_string = << >>
    /\ cleaned = << >>
    /\ recleaned = << >>

\* main, lines 250-269: the authorization code is exchanged for a token.
Connect ==
    /\ pc = "idle"
    /\ ~google_token
    /\ google_token' = TRUE
    /\ UNCHANGED <<pc, runVars, cleanVars>>

\* main, lines 270-274: the "disconnect" button.
Disconnect ==
    /\ pc = "idle"
    /\ google_token
    /\ google_token' = FALSE
    /\ UNCHANGED <<pc, runVars, cleanVars>>

\* main, line 290: the "analyze" button is pressed.
ClickAnalyze ==
    /\ pc = "idle"
    /\ pc' = "ocr"
    /\ UNCHANGED <<google_token, runVars, cleanVars>>

\* main, lines 293-294 and 311-312, with extract_text_from_image.
ExtractText ==
    /\ pc = "ocr"
    /\ \E outcome \in OcrOutcomes :
         LET text == IF outcome = "text" THEN <<"a">>
                     ELSE IF outcome = "empty" THEN << >>
                     ELSE None
         IN  /\ extracted_text' = text
             /\ ocr_calls' = IF outcome = "no_reader" THEN ocr_calls ELSE ocr_calls + 1
             /\ messages' = (messages
                              \cup (IF outcome = "raise" THEN {"error:ocr_exception"} ELSE {})
                              \cup (IF outcome = "no_reader" THEN {"error:ocr_load"} ELSE {})
                              \cup (IF Truthy(text) THEN {} ELSE {"error:no_text"}))
             /\ pc' = IF Truthy(text) THEN "llm" ELSE "done"
    /\ stages' = Append(stages, "ocr")
    /\ UNCHANGED <<google_token, analyzed_info, payload, dates, reminder, date_i,
                   created_events, returned, calendar, attempts, cause, llm_calls,
                   cleanVars>>

\* The members a response can carry: none unless it holds the token "a".
PayloadsFor(response) ==
    IF \E k \in 1..Len(response) : response[k] = "a" THEN Payloads ELSE {EmptyDict}

\* main, lines 297-298 and 309-310, with analyze_text_with_ai.
AnalyzeText ==
    /\ pc = "llm"
    /\ llm_calls' = llm_calls + 1
    /\ \E raises \in BOOLEAN, response \in Responses :
         \E p \in (IF raises THEN {EmptyDict} ELSE PayloadsFor(response)) :
           LET info == IF raises THEN None ELSE clean_json_string(strip(response))
           IN  /\ analyzed_info' = info
               /\ payload' = p
               /\ stages' = IF raises THEN Append(stages, "llm")
                            ELSE stages \o <<"llm", "normalize">>
               /\ messages' = (messages
                                \cup (IF raises THEN {"error:ai_exception"} ELSE {})
                                \cup (IF Truthy(info) THEN {} ELSE {"error:analysis_failed"}))
               /\ pc' = IF Truthy(info) THEN "create" ELSE "done"
    /\ UNCHANGED <<google_token, extracted_text, dates, reminder, date_i,
                   created_events, returned, calendar, attempts, cause, ocr_calls,
                   cleanVars>>

\* create_google_calendar_event, lines 135-157: the credential check, the
\* decoding of the record and the reading of its fields.  A Credentials object
\* is always true, so the second check (line 140) never fails on its own.
BeginCreate ==
    /\ pc = "create"
    /\ stages' = Append(stages, "materialize")
    /\ LET decoded == json_loads(analyzed_info, payload)
       IN  IF ~google_token
           THEN /\ messages' = messages \cup {"warning:auth"}
                /\ cause' = "no_token"
                /\ returned' = "None"
                /\ pc' = "display"
                /\ UNCHANGED <<dates, reminder>>
           ELSE IF ~decoded.ok
           THEN /\ messages' = messages \cup {ExceptMessage("json_decode")}
                /\ cause' = "json_decode"
                /\ returned' = "None"
                /\ pc' = "display"
                /\ UNCHANGED <<dates, reminder>>
           ELSE /\ dates' = get_dates(decoded.value)
                /\ reminder' = get_reminder(decoded.value)
                /\ pc' = "insert"
                /\ UNCHANGED <<messages, cause, returned>>
    /\ UNCHANGED <<google_token, extracted_text, analyzed_info, payload, date_i,
                   created_events, calendar, attempts, ocr_calls, llm_calls,
                   cleanVars>>

\* create_google_calendar_event, lines 159-202 and 205-213: one turn of the
\* for loop, with the except clause an exception of that turn reaches.
InsertStep ==
    /\ pc = "insert"
    /\ date_i < Len(dates)
    /\ date_i' = date_i + 1
    /\ \E now \in Nows, outcome \in InsertOutcomes :
         LET parsed == strptime(dates[date_i + 1])
             dt == IF parsed.exc = "ValueError" THEN AddDays(now, 7) ELSE parsed.dt
             raised == IF parsed.exc = "TypeError" THEN "type_error"
                       ELSE IF Overflows(AddHour(dt)) THEN "overflow"
                       ELSE "none"
             event == Event(dt, reminder)
         IN  IF raised # "none"
             THEN /\ cause' = raised
                  /\ messages' = messages \cup {ExceptMessage(raised)}
                  /\ returned' = "None"
                  /\ pc' = "display"
                  /\ UNCHANGED <<attempts, calendar, created_events>>
             ELSE /\ attempts' = Append(attempts,
                                        [index |-> date_i + 1, body |-> event,
                                         fallback |-> parsed.exc = "ValueError",
                                         now |-> now, outcome |-> outcome])
                  /\ pc' = AfterInsert(outcome)
                  /\ IF outcome = "ok"
                     THEN /\ calendar' = Append(calendar, event)
                          /\ created_events' =
                               Append(created_events,
                                      [id |-> Len(calendar) + 1, body |-> event])
                          /\ UNCHANGED <<cause, messages, returned>>
                     ELSE /\ cause' = outcome
                          /\ messages' = messages \cup {ExceptMessage(outcome)}
                          /\ returned' = "None"
                          /\ UNCHANGED <<calendar, created_events>>
    /\ UNCHANGED <<google_token, extracted_text, analyzed_info, payload, dates,
                   reminder, ocr_calls, llm_calls, stages, cleanVars>>

\* create_google_calendar_event, line 204: the loop is over.
ReturnEvents ==
    /\ pc = "insert"
    /\ date_i = Len(dates)
    /\ returned' = "list"
    /\ pc' = "display"
    /\ UNCHANGED <<google_token, extracted_text, analyzed_info, payload, dates,
                   reminder, date_i, created_events, calendar, attempts, cause,
                   messages, ocr_calls, llm_calls, stages, cleanVars>>

\* main, lines 302-308: what is shown for the value returned.
Display ==
    /\ pc = "display"
    /\ messages' = (messages
                     \cup (IF returned = "list" /\ created_events # << >>
                           THEN {"links"} ELSE {"info:auth"}))
    /\ pc' = "done"
    /\ UNCHANGED <<google_token, extracted_text, analyzed_info, payload, dates,
                   reminder, date_i, created_events, returned, calendar, attempts,
                   cause, ocr_calls, llm_calls, stages, cleanVars>>

\* The script is run again from the top: nothing of the run is kept.
Rerun ==
    /\ pc = "done"
    /\ pc' = "idle"
    /\ extracted_text' = None
    /\ analyzed_info' = None
    /\ payload' = EmptyDict
    /\ dates' = << >>
    /\ reminder' = DefaultReminder
    /\ date_i' = 0
    /\ created_events' = << >>
    /\ returned' = "unset"
    /\ calendar' = << >>
    /\ attempts' = << >>
    /\ cause' = "none"
    /\ messages' = {}
    /\ ocr_calls' = 0
    /\ llm_calls' = 0
    /\ stages' = << >>
    /\ UNCHANGED <<google_token, cleanVars>>

Next ==
    \/ Connect
    \/ Disconnect
    \/ ClickAnalyze
    \/ ExtractText
    \/ AnalyzeText
    \/ BeginCreate
    \/ InsertStep
    \/ ReturnEvents
    \/ Display
    \/ Rerun

Spec == Init /\ [][Next]_vars

\* ------------------------------------------------- clean_json_string alone

\* clean_json_string is studied on every text of at most MaxLen tokens, bare
\* and wrapped in one pair of braces.
Wrapped(s, braces) == IF braces THEN <<"{">> \o s \o <<"}">> ELSE << >> \o s

InitClean ==
    /\ pc = "clean"
    /\ google_token = FALSE
    /\ FreshRun
    /\ \E n \in 0..MaxLen, braces \in BOOLEAN :
         \E s \in [1..n -> Alphabet] : json_string = Wrapped(s, braces)
    /\ cleaned = << >>
    /\ recleaned = << >>

Clean ==
    /\ pc = "clean"
    /\ cleaned' = clean_json_string(json_string)
    /\ pc' = "cleaned"
    /\ UNCHANGED <<google_token, runVars, json_string, recleaned>>

CleanAgain ==
    /\ pc = "cleaned"
    /\ recleaned' = clean_json_string(cleaned)
    /\ pc' = "recleaned"
    /\ UNCHANGED <<google_token, runVars, json_string, cleaned>>

NextClean == Clean \/ CleanAgain

SpecClean == InitClean /\ [][NextClean]_vars

\* ------------------------------------------------------------------ claims

AuthSignalled == messages \cap AuthMessages # {}

GenericErrors == {"error:calendar_api", "error:unexpected"}

AuthCauses == {"no_token", "http401", "http403"}

Entered(stage) == \E k \in 1..Len(stages) : stages[k] = stage

\* C1: when the credential is missing or an insert is answered 401/403, the
\* materialization aborts with the authorization-required signal and this run
\* has created no event in the calendar.
C1_AuthFailureLeavesNoEvents ==
    cause \in AuthCauses =>
        /\ returned = "None"
        /\ AuthSignalled
        /\ calendar = << >>

\* The date the i-th turn of the loop resolved: the parse of the entry, or the
\* current time of that turn plus seven days.
ResolvedAt(i) ==
    LET parsed == strptime(dates[i])
    IN  IF parsed.exc = "none" THEN parsed.dt ELSE AddDays(attempts[i].now, 7)

\* C2: with every insert succeeding, a record with n dates has n drafts
\* submitted in the order of dates and n handles returned in that order, the
\* i-th for the draft that starts at the resolved i-th date and ends one hour
\* later.
C2_OneHandlePerDateInOrder ==
    (/\ pc = "done"
     /\ Entered("materialize")
     /\ cause \notin {"no_token", "json_decode"}
     /\ \A k \in 1..Len(attempts) : attempts[k].outcome = "ok")
    =>
    (/\ returned = "list"
     /\ Len(attempts) = Len(dates)
     /\ Len(created_events) = Len(dates)
     /\ \A i \in 1..Len(dates) :
          /\ attempts[i].index = i
          /\ created_events[i].id = i
          /\ created_events[i].body = attempts[i].body
          /\ calendar[i] = attempts[i].body
          /\ attempts[i].body.start = ResolvedAt(i)
          /\ attempts[i].body.end = AddHour(attempts[i].body.start)
          /\ ~Overflows(attempts[i].body.end))

\* C3: every entry of dates the loop has taken that does not parse against the
\* format gets the start "now + 7 days" and a submitted draft; it raises
\* nothing and does not abort the batch.
C3_UnparsableDateFallsBack ==
    /\ cause # "type_error"
    /\ \A i \in 1..date_i :
         strptime(dates[i]).exc # "none" =>
             \E k \in 1..Len(attempts) :
                 /\ attempts[k].index = i
                 /\ attempts[k].fallback
                 /\ attempts[k].body.start = AddDays(attempts[k].now, 7)

\* C4: a finished run shows the authorization-required message only when the
\* credential is missing or an insert was answered 401/403; any other failure
\* of the materialization shows a generic error and not that message, and a
\* materialization that did not fail shows neither.
C4_AuthSignalOnlyForAuthFailures ==
    pc = "done" =>
        /\ AuthSignalled => cause \in AuthCauses
        /\ (Entered("materialize") /\ cause \notin AuthCauses \cup {"none"})
               => messages \cap GenericErrors # {}
        /\ cause = "none" => messages \cap GenericErrors = {}

\* The minutes before start at which 08:45 of the start's day lies, 0 from
\* 08:45 on.
MinutesBefore0845(start) ==
    LET m == start.hour * 60 + start.minute
    IN  IF m >= 8 * 60 + 45 THEN 0 ELSE (8 * 60 + 45) - m

\* The tag as the model wrote it, Missing when the key is absent.
RawTag == json_loads(analyzed_info, payload).value.reminder

\* C5: with the tag "당일 오전 8시 45분" every draft has useDefault = false and
\* exactly one popup override, of max(0, 08:45 - start) whole minutes.
C5_DayOfReminderClamped ==
    \A k \in 1..Len(attempts) :
        RawTag = DayOf0845 =>
            LET r == attempts[k].body.reminders
            IN  /\ r.useDefault = FALSE
                /\ Len(r.overrides) = 1
                /\ r.overrides[1].method = "popup"
                /\ r.overrides[1].minutes = MinutesBefore0845(attempts[k].body.start)
                /\ r.overrides[1].minutes >= 0

C5_Witness ==
    /\ RawTag = DayOf0845
    /\ Len(attempts) = 2
    /\ attempts[1].body.start.hour = 10
    /\ attempts[1].body.reminders.overrides[1].minutes = 0
    /\ attempts[2].body.start.hour = 7
    /\ attempts[2].body.reminders.overrides[1].minutes = 105

\* C6: the reminder of a draft depends on the exact tag alone: "이벤트 2일 전"
\* gives one popup override of 2880 minutes whatever the start; a tag other
\* than the two non-default ones (the default tag, no tag, an unknown value)
\* gives the provider default with no override.
C6_ReminderByExactTag ==
    \A k \in 1..Len(attempts) :
        LET r == attempts[k].body.reminders
        IN  /\ RawTag = TwoDaysBefore =>
                /\ r.useDefault = FALSE
                /\ r.overrides = <<[method |-> "popup", minutes |-> 2880]>>
            /\ RawTag \notin {TwoDaysBefore, DayOf0845} =>
                /\ r.useDefault = TRUE
                /\ r.overrides = << >>

C6_Witness ==
    /\ RawTag = "Two-Days-Before"
    /\ Len(attempts) = 2
    /\ attempts[1].body.reminders.useDefault = TRUE
    /\ attempts[2].body.reminders.useDefault = TRUE

StageOrder == <<"ocr", "llm", "normalize", "materialize">>

Unusable(text) == text = None \/ text = << >>

\* C7: the stages of a run are entered in the order OCR, language model,
\* normalization, materialization; the language model is not called after an
\* OCR result of None or "", and no insert is attempted (nor the
\* materialization entered) after an analysis result of None or "".
C7_StagesInOrderShortCircuit ==
    /\ Len(stages) <= Len(StageOrder)
    /\ \A k \in 1..Len(stages) : stages[k] = StageOrder[k]
    /\ llm_calls > 0 => (Entered("ocr") /\ ~Unusable(extracted_text))
    /\ (Entered("ocr") /\ Unusable(extracted_text)) =>
           (llm_calls = 0 /\ ~Entered("llm") /\ attempts = << >>)
    /\ (Entered("llm") /\ Unusable(analyzed_info)) =>
           (~Entered("materialize") /\ attempts = << >> /\ calendar = << >>)
    /\ attempts # << >> => (Entered("materialize") /\ ~Unusable(analyzed_info))

C7_Witness ==
    /\ pc = "done"
    /\ stages = <<"ocr", "llm", "normalize">>
    /\ analyzed_info = << >>
    /\ attempts = << >>

\* C8: in a run the OCR and the language model are each called at most once,
\* the insert at most once per entry of dates and in their order, and a failed
\* insert is the last one of the run.
C8_NoRetryFailureEndsRun ==
    /\ ocr_calls <= 1
    /\ llm_calls <= 1
    /\ Len(attempts) <= Len(dates)
    /\ \A k \in 1..Len(attempts) :
         /\ attempts[k].index = k
         /\ k < Len(attempts) => attempts[k].outcome = "ok"
    /\ (pc \in {"display", "done"} /\ cause # "none") => returned = "None"

C8_Witness ==
    /\ pc = "done"
    /\ Len(dates) = 2
    /\ Len(attempts) = 1
    /\ attempts[1].outcome = "http500"
    /\ ocr_calls = 1
    /\ llm_calls = 1

\* C9: the result is the slice of the fence-free, trimmed text from the first
\* "{" (position 0 when there is none) to the last "}" (the end of the text
\* when there is none), so a text with neither brace comes back whole.
C9_SliceFallsBackToWholeText ==
    pc # "clean" =>
        LET s == strip(re_sub_fence(json_string))
            first == IF find(s, "{") = -1 THEN 0 ELSE find(s, "{")
            last == IF rfind(s, "}") = -1 THEN Len(s) ELSE rfind(s, "}") + 1
        IN  cleaned = PySlice(s, first, last)

\* C10: clean_json_string applied to its own result changes nothing.
C10_CleanIsIdempotent ==
    pc = "recleaned" => recleaned = cleaned

====
